---- MODULE Spec2Model ----
(***************************************************************************)
(* Run-down protection (crate run_down): the packed reference-count word,  *)
(* the lazily created completion event and the acquire / release /         *)
(* wait_for_rundown / re_init protocol of RundownRef, with the RAII guard. *)
(*                                                                         *)
(* The u64 state word is scaled to FlagBits + CountBits bits: the flag     *)
(* mask keeps its shape (the FlagBits high-order bits), the count keeps    *)
(* the low-order bits.                                                     *)
(***************************************************************************)
EXTENDS Integers, Naturals, FiniteSets, Sequences, TLC

\* Number of worker threads that acquire and drop guards.
NThreads == 2

\* Width of the reference-count field of the scaled word (60 in the u64).
CountBits == 3

\* Width of the RUNDOWN_IN_PROGRESS mask: 0xF000_0000_0000_0000 has 4 bits.
FlagBits == 4

Threads == 1..NThreads

\* The thread that owns the drain / re-init lifecycle, and a second caller.
O1 == "o1"

O2 == "o2"

Owners == {O1, O2}

RECURSIVE Pow2(_)
Pow2(n) == IF n = 0 THEN 1 ELSE 2 * Pow2(n - 1)

WordBits == FlagBits + CountBits

\* Number of values of the word; the largest word is WordLimit - 1.
WordLimit == Pow2(WordBits)

Words == 0..(WordLimit - 1)

\* Bitwise operators on words of WordBits bits.
RECURSIVE BitAndN(_, _, _)
BitAndN(a, b, n) ==
    IF n = 0 THEN 0
    ELSE ((a % 2) * (b % 2)) + 2 * BitAndN(a \div 2, b \div 2, n - 1)

BitAnd(a, b) == BitAndN(a, b, WordBits)

RECURSIVE BitOrN(_, _, _)
BitOrN(a, b, n) ==
    IF n = 0 THEN 0
    ELSE (IF (a % 2) + (b % 2) > 0 THEN 1 ELSE 0)
         + 2 * BitOrN(a \div 2, b \div 2, n - 1)

BitOr(a, b) == BitOrN(a, b, WordBits)

BitNot(a) == (WordLimit - 1) - a

\* const RUNDOWN_IN_PROGRESS = 0xF000_0000_0000_0000
RUNDOWN_IN_PROGRESS == (Pow2(FlagBits) - 1) * Pow2(CountBits)

\* Result of an arithmetic operation that panicked.
PANIC == -1

VARIABLES
    ref_count,        \* RundownRef.ref_count: the atomic word
    event,            \* RundownRef.event: "absent", "unset" or "set"
    pc,               \* worker thread -> position in its program
    current,          \* worker thread -> local `current` of its CAS loop
    result,           \* worker thread -> "ok" / "err": result of its last
                      \*   try_acquire; "dropped" once its guard is released
    o_pc,             \* owner thread -> position in its program
    o_cur,            \* owner thread -> local `current`
    o_recall,         \* owner thread -> its wait_for_rundown call started
                      \*   after an earlier one returned in this epoch
    o_blocked,        \* owner thread -> a wait_for_rundown call of this
                      \*   epoch called event.wait()
    reinit_done,      \* a re_init has completed on this object
    drain_committed,  \* a draining compare_exchange has succeeded
    acq_in_interval,  \* worker thread -> its try_acquire call started
                      \*   between a wait_for_rundown return and re_init
    f_bits,           \* a RundownFlags value: the bits of `self`
    f_op,             \* the RundownFlags method last applied to f_bits
    f_out             \* what that method returned (PANIC: it panicked)

vars == <<ref_count, event, pc, current, result,
          o_pc, o_cur, o_recall, o_blocked, reinit_done, drain_committed,
          acq_in_interval, f_bits, f_op, f_out>>

flagVars == <<f_bits, f_op, f_out>>

workerVars == <<pc, current, result, acq_in_interval>>

ownerVars == <<o_pc, o_cur, o_recall, o_blocked, reinit_done, drain_committed>>

----------------------------------------------------------------------------
\* RundownFlags (src/src/rundown_ref.rs)

is_rundown_in_progress(bits) ==
    BitAnd(bits, RUNDOWN_IN_PROGRESS) = RUNDOWN_IN_PROGRESS

\* Variant: the mask is added instead of or-ed (wrapping).
set_rundown_in_progress_add(bits) == (bits + RUNDOWN_IN_PROGRESS) % WordLimit

set_rundown_in_progress(bits) == BitOr(bits, RUNDOWN_IN_PROGRESS)

get_ref(bits) == BitAnd(bits, BitNot(RUNDOWN_IN_PROGRESS))

\* Variant: a count of one is also taken for zero.
is_ref_zero_le_one(bits) == get_ref(bits) <= 1

is_ref_zero(bits) == get_ref(bits) = 0

\* self.bits + 1, as the set of results the build can produce: on overflow
\* a panic (overflow checks on) or the wrapped value (overflow checks off).
add_ref(bits) ==
    IF bits + 1 >= WordLimit THEN {PANIC, 0} ELSE {bits + 1}

\* Variant: the decrement is applied to the count field only.
dec_ref_clear_flags(bits) ==
    IF get_ref(bits) = 0 THEN {PANIC} ELSE {get_ref(bits) - 1}

\* self.bits - 1, as the set of results the build can produce: on underflow
\* a panic (overflow checks on) or the wrapped value (overflow checks off).
dec_ref(bits) ==
    IF bits = 0 THEN {PANIC, WordLimit - 1} ELSE {bits - 1}

\* Variant: from_bits_truncate, which keeps only the bits of the mask.
to_flags_truncate(bits) == BitAnd(bits, RUNDOWN_IN_PROGRESS)

\* from_bits_unchecked keeps every bit.
to_flags(bits) == bits

\* RundownFlags::add_ref of src/src/flags.rs: self.bits.checked_add(1),
\* a panic when the whole word overflows.
flags_add_ref(bits) == IF bits + 1 >= WordLimit THEN PANIC ELSE bits + 1

\* RundownFlags::dec_ref of src/src/flags.rs: self.bits.checked_sub(1),
\* a panic when the whole word underflows.
flags_dec_ref(bits) == IF bits - 1 < 0 THEN PANIC ELSE bits - 1

\* The largest value of the reference-count field.
MaxCount == Pow2(CountBits) - 1

\* The word of a fully drained object: {active_count: 0, draining: true}.
DrainedWord == RUNDOWN_IN_PROGRESS

----------------------------------------------------------------------------
TypeOK ==
    /\ ref_count \in Words
    /\ event \in {"absent", "unset", "set"}
    /\ pc \in [Threads -> {"idle", "acq", "holding", "rel", "rel_done", "panic"}]
    /\ current \in [Threads -> Words]
    /\ result \in [Threads -> {"none", "ok", "err", "dropped"}]
    /\ o_pc \in [Owners -> {"idle", "w_loop", "w_cas", "w_after", "w_wait",
                            "drained", "ri_reset", "ri_store", "panic"}]
    /\ o_cur \in [Owners -> Words]
    /\ o_recall \in [Owners -> BOOLEAN]
    /\ o_blocked \in [Owners -> BOOLEAN]
    /\ reinit_done \in BOOLEAN
    /\ drain_committed \in BOOLEAN
    /\ acq_in_interval \in [Threads -> BOOLEAN]
    /\ f_bits \in Words
    /\ f_op \in {"none", "flags_add_ref", "flags_dec_ref", "add_ref",
                 "dec_ref", "set_rundown_in_progress"}
    /\ f_out \in Words \cup {PANIC}

\* RundownRef::new(): ref_count 0, no event.
NewRundownRef ==
    /\ ref_count = 0
    /\ event = "absent"
    /\ pc = [t \in Threads |-> "idle"]
    /\ current = [t \in Threads |-> 0]
    /\ result = [t \in Threads |-> "none"]
    /\ o_pc = [o \in Owners |-> "idle"]
    /\ o_cur = [o \in Owners |-> 0]
    /\ o_recall = [o \in Owners |-> FALSE]
    /\ o_blocked = [o \in Owners |-> FALSE]
    /\ reinit_done = FALSE
    /\ drain_committed = FALSE
    /\ acq_in_interval = [t \in Threads |-> FALSE]

\* A new RundownRef; RundownFlags::empty() as the flags value.
Init ==
    /\ NewRundownRef
    /\ f_bits = 0
    /\ f_op = "none"
    /\ f_out = 0

\* The owner's wait_for_rundown has returned and its re_init has not yet
\* stored the new word.
RundownComplete ==
    \/ o_pc[O1] \in {"drained", "ri_reset", "ri_store"}
    \/ o_recall[O1] /\ o_pc[O1] \in {"w_loop", "w_cas", "w_after", "w_wait"}

----------------------------------------------------------------------------
\* try_acquire / try_acquire_internal

\* Variant: the load is a fetch-and-add that counts the caller at once.
TryAcquireLoad_fetch_add(t) ==
    /\ pc[t] = "idle"
    /\ pc' = [pc EXCEPT ![t] = "acq"]
    /\ current' = [current EXCEPT ![t] = to_flags(ref_count)]
    /\ result' = [result EXCEPT ![t] = "none"]
    /\ acq_in_interval' = [acq_in_interval EXCEPT ![t] = RundownComplete]
    /\ ref_count' = (ref_count + 1) % WordLimit
    /\ UNCHANGED <<event, ownerVars, flagVars>>

\* let mut current = self.load_flags();
TryAcquireLoad(t) ==
    /\ pc[t] = "idle"
    /\ pc' = [pc EXCEPT ![t] = "acq"]
    /\ current' = [current EXCEPT ![t] = to_flags(ref_count)]
    /\ result' = [result EXCEPT ![t] = "none"]
    /\ acq_in_interval' = [acq_in_interval EXCEPT ![t] = RundownComplete]
    /\ UNCHANGED <<ref_count, event, ownerVars, flagVars>>

\* Variant: the error is returned only once the run-down has completed.
TryAcquireErr_wait_event(t) ==
    /\ pc[t] = "acq"
    /\ is_rundown_in_progress(current[t])
    /\ event = "set"
    /\ pc' = [pc EXCEPT ![t] = "idle"]
    /\ result' = [result EXCEPT ![t] = "err"]
    /\ current' = [current EXCEPT ![t] = 0]
    /\ UNCHANGED <<ref_count, event, acq_in_interval, ownerVars, flagVars>>

\* if current.is_rundown_in_progress() { return Err(RundownInProgress) }
TryAcquireErr(t) ==
    /\ pc[t] = "acq"
    /\ is_rundown_in_progress(current[t])
    /\ pc' = [pc EXCEPT ![t] = "idle"]
    /\ result' = [result EXCEPT ![t] = "err"]
    /\ current' = [current EXCEPT ![t] = 0]
    /\ UNCHANGED <<ref_count, event, acq_in_interval, ownerVars, flagVars>>

\* Variant: the run-down flag of the loaded word is not looked at.
TryAcquireCas_ignore_flag(t) ==
    /\ pc[t] = "acq"
    /\ \E new_bits_with_ref \in add_ref(current[t]) :
       IF new_bits_with_ref = PANIC
       THEN /\ pc' = [pc EXCEPT ![t] = "panic"]
            /\ UNCHANGED <<ref_count, current, result>>
       ELSE /\ ref_count = current[t]
            /\ ref_count' = new_bits_with_ref
            /\ pc' = [pc EXCEPT ![t] = "holding"]
            /\ result' = [result EXCEPT ![t] = "ok"]
            /\ current' = [current EXCEPT ![t] = 0]
    /\ UNCHANGED <<event, acq_in_interval, ownerVars, flagVars>>

\* Variant: the incremented word is stored without comparing.
TryAcquireCas_blind_store(t) ==
    /\ pc[t] = "acq"
    /\ ~is_rundown_in_progress(current[t])
    /\ \E new_bits_with_ref \in add_ref(current[t]) :
       IF new_bits_with_ref = PANIC
       THEN /\ pc' = [pc EXCEPT ![t] = "panic"]
            /\ UNCHANGED <<ref_count, current, result>>
       ELSE /\ ref_count' = new_bits_with_ref
            /\ pc' = [pc EXCEPT ![t] = "holding"]
            /\ result' = [result EXCEPT ![t] = "ok"]
            /\ current' = [current EXCEPT ![t] = 0]
    /\ UNCHANGED <<event, acq_in_interval, ownerVars, flagVars>>

\* add_ref, then a compare_exchange that succeeds: Ok(RundownGuard::new(self)).
TryAcquireCas(t) ==
    /\ pc[t] = "acq"
    /\ ~is_rundown_in_progress(current[t])
    /\ \E new_bits_with_ref \in add_ref(current[t]) :
       IF new_bits_with_ref = PANIC
       THEN /\ pc' = [pc EXCEPT ![t] = "panic"]
            /\ UNCHANGED <<ref_count, current, result>>
       ELSE /\ ref_count = current[t]
            /\ ref_count' = new_bits_with_ref
            /\ pc' = [pc EXCEPT ![t] = "holding"]
            /\ result' = [result EXCEPT ![t] = "ok"]
            /\ current' = [current EXCEPT ![t] = 0]
    /\ UNCHANGED <<event, acq_in_interval, ownerVars, flagVars>>

\* Variant: a failed compare_exchange is reported as RundownInProgress.
TryAcquireRetry_as_error(t) ==
    /\ pc[t] = "acq"
    /\ ~is_rundown_in_progress(current[t])
    /\ \E new_bits_with_ref \in add_ref(current[t]) : new_bits_with_ref # PANIC
    /\ ref_count # current[t]
    /\ pc' = [pc EXCEPT ![t] = "idle"]
    /\ result' = [result EXCEPT ![t] = "err"]
    /\ current' = [current EXCEPT ![t] = 0]
    /\ UNCHANGED <<ref_count, event, acq_in_interval, ownerVars, flagVars>>

\* a compare_exchange that fails: Err(new_current) => current = new_current.
TryAcquireRetry(t) ==
    /\ pc[t] = "acq"
    /\ ~is_rundown_in_progress(current[t])
    /\ \E new_bits_with_ref \in add_ref(current[t]) : new_bits_with_ref # PANIC
    /\ ref_count # current[t]
    /\ current' = [current EXCEPT ![t] = to_flags(ref_count)]
    /\ UNCHANGED <<ref_count, event, pc, result, acq_in_interval, ownerVars, flagVars>>

----------------------------------------------------------------------------
\* Drop for RundownGuard -> RundownRef::release

\* Variant: a guard that was already dropped can be released again.
ReleaseLoad_double(t) ==
    /\ \/ pc[t] = "holding"
       \/ pc[t] = "idle" /\ result[t] = "dropped"
    /\ pc' = [pc EXCEPT ![t] = "rel"]
    /\ current' = [current EXCEPT ![t] = to_flags(ref_count)]
    /\ UNCHANGED <<ref_count, event, result, acq_in_interval, ownerVars, flagVars>>

\* drop(): self.owned_run_down_ref.release(); let mut current = load_flags();
ReleaseLoad(t) ==
    /\ pc[t] = "holding"
    /\ pc' = [pc EXCEPT ![t] = "rel"]
    /\ current' = [current EXCEPT ![t] = to_flags(ref_count)]
    /\ UNCHANGED <<ref_count, event, result, acq_in_interval, ownerVars, flagVars>>

\* Variant: after the successful compare_exchange `current` keeps the word
\* from before the decrement.
ReleaseCas_stale_current(t) ==
    /\ pc[t] = "rel"
    /\ \E bits_with_decrement \in dec_ref(current[t]) :
       IF bits_with_decrement = PANIC
       THEN /\ pc' = [pc EXCEPT ![t] = "panic"]
            /\ UNCHANGED <<ref_count, current>>
       ELSE /\ ref_count = current[t]
            /\ ref_count' = bits_with_decrement
            /\ pc' = [pc EXCEPT ![t] = "rel_done"]
            /\ UNCHANGED current
    /\ UNCHANGED <<event, result, acq_in_interval, ownerVars, flagVars>>

\* dec_ref, then a compare_exchange that succeeds.
ReleaseCas(t) ==
    /\ pc[t] = "rel"
    /\ \E bits_with_decrement \in dec_ref(current[t]) :
       IF bits_with_decrement = PANIC
       THEN /\ pc' = [pc EXCEPT ![t] = "panic"]
            /\ UNCHANGED <<ref_count, current>>
       ELSE /\ ref_count = current[t]
            /\ ref_count' = bits_with_decrement
            /\ current' = [current EXCEPT ![t] = to_flags(bits_with_decrement)]
            /\ pc' = [pc EXCEPT ![t] = "rel_done"]
    /\ UNCHANGED <<event, result, acq_in_interval, ownerVars, flagVars>>

\* a compare_exchange that fails.
ReleaseRetry(t) ==
    /\ pc[t] = "rel"
    /\ \E bits_with_decrement \in dec_ref(current[t]) : bits_with_decrement # PANIC
    /\ ref_count # current[t]
    /\ current' = [current EXCEPT ![t] = to_flags(ref_count)]
    /\ UNCHANGED <<ref_count, event, pc, result, acq_in_interval, ownerVars, flagVars>>

\* Variant: the event is set by every release that sees the run-down flag.
ReleaseSignal_any_count(t) ==
    /\ pc[t] = "rel_done"
    /\ IF is_rundown_in_progress(current[t])
       THEN IF event = "absent"
            THEN /\ pc' = [pc EXCEPT ![t] = "panic"]
                 /\ UNCHANGED <<event, current>>
            ELSE /\ event' = "set"
                 /\ pc' = [pc EXCEPT ![t] = "idle"]
                 /\ current' = [current EXCEPT ![t] = 0]
       ELSE /\ pc' = [pc EXCEPT ![t] = "idle"]
            /\ current' = [current EXCEPT ![t] = 0]
            /\ UNCHANGED event
    /\ result' = [result EXCEPT ![t] = "dropped"]
    /\ UNCHANGED <<ref_count, acq_in_interval, ownerVars, flagVars>>

\* if current.is_ref_zero() && current.is_rundown_in_progress() { event.set() }
ReleaseSignal(t) ==
    /\ pc[t] = "rel_done"
    /\ IF is_ref_zero(current[t]) /\ is_rundown_in_progress(current[t])
       THEN IF event = "absent"
            THEN /\ pc' = [pc EXCEPT ![t] = "panic"]
                 /\ UNCHANGED <<event, current>>
            ELSE /\ event' = "set"
                 /\ pc' = [pc EXCEPT ![t] = "idle"]
                 /\ current' = [current EXCEPT ![t] = 0]
       ELSE /\ pc' = [pc EXCEPT ![t] = "idle"]
            /\ current' = [current EXCEPT ![t] = 0]
            /\ UNCHANGED event
    /\ result' = [result EXCEPT ![t] = "dropped"]
    /\ UNCHANGED <<ref_count, acq_in_interval, ownerVars, flagVars>>

----------------------------------------------------------------------------
\* wait_for_rundown

\* Variant: a caller that finds the flag already set returns at once.
WaitLoad_return_if_draining(o) ==
    /\ o_pc[o] \in {"idle", "drained"}
    /\ o_pc' = [o_pc EXCEPT ![o] = IF is_rundown_in_progress(ref_count)
                                   THEN "drained" ELSE "w_loop"]
    /\ o_cur' = [o_cur EXCEPT ![o] = to_flags(ref_count)]
    /\ o_recall' = [o_recall EXCEPT ![o] = (o_pc[o] = "drained")]
    /\ UNCHANGED <<ref_count, event, workerVars, flagVars,
                   o_blocked, reinit_done, drain_committed>>

\* let mut current = self.load_flags();
WaitLoad(o) ==
    /\ o_pc[o] \in {"idle", "drained"}
    /\ o_pc' = [o_pc EXCEPT ![o] = "w_loop"]
    /\ o_cur' = [o_cur EXCEPT ![o] = to_flags(ref_count)]
    /\ o_recall' = [o_recall EXCEPT ![o] = (o_pc[o] = "drained")]
    /\ UNCHANGED <<ref_count, event, workerVars, flagVars,
                   o_blocked, reinit_done, drain_committed>>

\* Variant: the event is created on every iteration.
WaitEnsureEvent_eager(o) ==
    /\ o_pc[o] = "w_loop"
    /\ event' = IF event = "absent" THEN "unset" ELSE event
    /\ o_pc' = [o_pc EXCEPT ![o] = "w_cas"]
    /\ UNCHANGED <<ref_count, workerVars, flagVars,
                   o_cur, o_recall, o_blocked, reinit_done, drain_committed>>

\* if !current.is_ref_zero() { self.event.get_or_create(..Unset) }
WaitEnsureEvent(o) ==
    /\ o_pc[o] = "w_loop"
    /\ event' = IF ~is_ref_zero(o_cur[o]) /\ event = "absent"
                THEN "unset" ELSE event
    /\ o_pc' = [o_pc EXCEPT ![o] = "w_cas"]
    /\ UNCHANGED <<ref_count, workerVars, flagVars,
                   o_cur, o_recall, o_blocked, reinit_done, drain_committed>>

\* Variant: the exchange toggles the flag bits instead of setting them.
WaitCas_toggle(o) ==
    /\ o_pc[o] = "w_cas"
    /\ ref_count = o_cur[o]
    /\ LET bits_with_rundown ==
              IF is_rundown_in_progress(o_cur[o])
              THEN o_cur[o] - RUNDOWN_IN_PROGRESS
              ELSE set_rundown_in_progress(o_cur[o]) IN
       /\ ref_count' = bits_with_rundown
       /\ o_cur' = [o_cur EXCEPT ![o] = to_flags(bits_with_rundown)]
    /\ o_pc' = [o_pc EXCEPT ![o] = "w_after"]
    /\ drain_committed' = TRUE
    /\ UNCHANGED <<event, workerVars, flagVars,
                   o_recall, o_blocked, reinit_done>>

\* Variant: the exchange installs the bare mask, without the count.
WaitCas_flag_only(o) ==
    /\ o_pc[o] = "w_cas"
    /\ ref_count = o_cur[o]
    /\ LET bits_with_rundown == RUNDOWN_IN_PROGRESS IN
       /\ ref_count' = bits_with_rundown
       /\ o_cur' = [o_cur EXCEPT ![o] = to_flags(bits_with_rundown)]
    /\ o_pc' = [o_pc EXCEPT ![o] = "w_after"]
    /\ drain_committed' = TRUE
    /\ UNCHANGED <<event, workerVars, flagVars,
                   o_recall, o_blocked, reinit_done>>

\* set_rundown_in_progress, then a compare_exchange that succeeds.
WaitCas(o) ==
    /\ o_pc[o] = "w_cas"
    /\ ref_count = o_cur[o]
    /\ LET bits_with_rundown == set_rundown_in_progress(o_cur[o]) IN
       /\ ref_count' = bits_with_rundown
       /\ o_cur' = [o_cur EXCEPT ![o] = to_flags(bits_with_rundown)]
    /\ o_pc' = [o_pc EXCEPT ![o] = "w_after"]
    /\ drain_committed' = TRUE
    /\ UNCHANGED <<event, workerVars, flagVars,
                   o_recall, o_blocked, reinit_done>>

\* Variant: a failed compare_exchange retries the exchange directly.
WaitRetry_skip_create(o) ==
    /\ o_pc[o] = "w_cas"
    /\ ref_count # o_cur[o]
    /\ o_cur' = [o_cur EXCEPT ![o] = to_flags(ref_count)]
    /\ UNCHANGED <<ref_count, event, workerVars, flagVars, o_pc,
                   o_recall, o_blocked, reinit_done, drain_committed>>

\* a compare_exchange that fails: back to the top of the loop.
WaitRetry(o) ==
    /\ o_pc[o] = "w_cas"
    /\ ref_count # o_cur[o]
    /\ o_cur' = [o_cur EXCEPT ![o] = to_flags(ref_count)]
    /\ o_pc' = [o_pc EXCEPT ![o] = "w_loop"]
    /\ UNCHANGED <<ref_count, event, workerVars, flagVars,
                   o_recall, o_blocked, reinit_done, drain_committed>>

\* Variant: the caller waits whenever the event exists.
WaitCheck_wait_if_event(o) ==
    /\ o_pc[o] = "w_after"
    /\ IF event = "absent"
       THEN /\ o_pc' = [o_pc EXCEPT ![o] = "drained"]
            /\ o_cur' = [o_cur EXCEPT ![o] = 0]
            /\ UNCHANGED o_blocked
       ELSE /\ o_pc' = [o_pc EXCEPT ![o] = "w_wait"]
            /\ o_blocked' = [o_blocked EXCEPT ![o] = TRUE]
            /\ UNCHANGED o_cur
    /\ UNCHANGED <<ref_count, event, workerVars, flagVars,
                   o_recall, reinit_done, drain_committed>>

\* if !current.is_ref_zero() { event.get().expect(..); event.wait() }
WaitCheck(o) ==
    /\ o_pc[o] = "w_after"
    /\ IF is_ref_zero(o_cur[o])
       THEN /\ o_pc' = [o_pc EXCEPT ![o] = "drained"]
            /\ o_cur' = [o_cur EXCEPT ![o] = 0]
            /\ UNCHANGED o_blocked
       ELSE IF event = "absent"
            THEN /\ o_pc' = [o_pc EXCEPT ![o] = "panic"]
                 /\ UNCHANGED <<o_cur, o_blocked>>
            ELSE /\ o_pc' = [o_pc EXCEPT ![o] = "w_wait"]
                 /\ o_blocked' = [o_blocked EXCEPT ![o] = TRUE]
                 /\ UNCHANGED o_cur
    /\ UNCHANGED <<ref_count, event, workerVars, flagVars,
                   o_recall, reinit_done, drain_committed>>

\* Variant: event.wait() returns whatever the state of the event.
WaitWake_early(o) ==
    /\ o_pc[o] = "w_wait"
    /\ o_pc' = [o_pc EXCEPT ![o] = "drained"]
    /\ o_cur' = [o_cur EXCEPT ![o] = 0]
    /\ UNCHANGED <<ref_count, event, workerVars, flagVars,
                   o_recall, o_blocked, reinit_done, drain_committed>>

\* Variant: the waiter polls the word instead of waiting on the event.
WaitWake_on_word(o) ==
    /\ o_pc[o] = "w_wait"
    /\ ref_count = DrainedWord
    /\ o_pc' = [o_pc EXCEPT ![o] = "drained"]
    /\ o_cur' = [o_cur EXCEPT ![o] = 0]
    /\ UNCHANGED <<ref_count, event, workerVars, flagVars,
                   o_recall, o_blocked, reinit_done, drain_committed>>

\* event.wait() returns once the event is set.
WaitWake(o) ==
    /\ o_pc[o] = "w_wait"
    /\ event = "set"
    /\ o_pc' = [o_pc EXCEPT ![o] = "drained"]
    /\ o_cur' = [o_cur EXCEPT ![o] = 0]
    /\ UNCHANGED <<ref_count, event, workerVars, flagVars,
                   o_recall, o_blocked, reinit_done, drain_committed>>

----------------------------------------------------------------------------
\* re_init

\* Variant: only the run-down flag is validated.
re_init_valid_flag_only(bits) == is_rundown_in_progress(bits)

re_init_valid(bits) == is_rundown_in_progress(bits) /\ is_ref_zero(bits)

\* The validation of re_init: true when the call goes on.
\* let current = self.load_flags(); panic unless run-down is complete.
ReInitCall(o) ==
    /\ o_pc[o] \in {"idle", "drained"}
    /\ o_cur' = [o_cur EXCEPT ![o] = to_flags(ref_count)]
    /\ IF re_init_valid(to_flags(ref_count))
       THEN o_pc' = [o_pc EXCEPT ![o] = "ri_reset"]
       ELSE o_pc' = [o_pc EXCEPT ![o] = "panic"]
    /\ UNCHANGED <<ref_count, event, workerVars, flagVars,
                   o_recall, o_blocked, reinit_done, drain_committed>>

\* Variant: the event is left as it is.
ReInitReset_skip(o) ==
    /\ o_pc[o] = "ri_reset"
    /\ o_pc' = [o_pc EXCEPT ![o] = "ri_store"]
    /\ UNCHANGED <<ref_count, event, workerVars, flagVars,
                   o_cur, o_recall, o_blocked, reinit_done, drain_committed>>

\* if let Some(event) = self.event.get() { event.reset() }
ReInitReset(o) ==
    /\ o_pc[o] = "ri_reset"
    /\ event' = IF event = "absent" THEN "absent" ELSE "unset"
    /\ o_pc' = [o_pc EXCEPT ![o] = "ri_store"]
    /\ UNCHANGED <<ref_count, workerVars, flagVars,
                   o_cur, o_recall, o_blocked, reinit_done, drain_committed>>

\* Variant: the store also replaces the lazy cell by an empty one.
ReInitStore_drop_event(o) ==
    /\ o_pc[o] = "ri_store"
    /\ ref_count' = 0
    /\ event' = "absent"
    /\ o_pc' = [o_pc EXCEPT ![o] = "idle"]
    /\ o_cur' = [o_cur EXCEPT ![o] = 0]
    /\ o_recall' = [o_recall EXCEPT ![o] = FALSE]
    /\ o_blocked' = [o_blocked EXCEPT ![o] = FALSE]
    /\ reinit_done' = TRUE
    /\ UNCHANGED <<workerVars, flagVars, drain_committed>>

\* self.ref_count.store(0)
ReInitStore(o) ==
    /\ o_pc[o] = "ri_store"
    /\ ref_count' = 0
    /\ o_pc' = [o_pc EXCEPT ![o] = "idle"]
    /\ o_cur' = [o_cur EXCEPT ![o] = 0]
    /\ o_recall' = [o_recall EXCEPT ![o] = FALSE]
    /\ o_blocked' = [o_blocked EXCEPT ![o] = FALSE]
    /\ reinit_done' = TRUE
    /\ UNCHANGED <<event, workerVars, flagVars, drain_committed>>

----------------------------------------------------------------------------
\* Worker threads: try_acquire, and drop the guard when it was issued.
TryAcquireLoadStep == \E t \in Threads : TryAcquireLoad(t)

TryAcquireErrStep == \E t \in Threads : TryAcquireErr(t)

TryAcquireCasStep == \E t \in Threads : TryAcquireCas(t)

TryAcquireRetryStep == \E t \in Threads : TryAcquireRetry(t)

ReleaseLoadStep == \E t \in Threads : ReleaseLoad(t)

ReleaseCasStep == \E t \in Threads : ReleaseCas(t)

ReleaseRetryStep == \E t \in Threads : ReleaseRetry(t)

ReleaseSignalStep == \E t \in Threads : ReleaseSignal(t)

\* The owner thread: wait_for_rundown (possibly repeated), then re_init.
OwnerWaitLoad == WaitLoad(O1)

OwnerWaitEnsureEvent == WaitEnsureEvent(O1)

OwnerWaitCas == WaitCas(O1)

OwnerWaitRetry == WaitRetry(O1)

OwnerWaitCheck == WaitCheck(O1)

OwnerWaitWake == WaitWake(O1)

\* The owner calls re_init only after its wait_for_rundown returned.
OwnerReInitCall == o_pc[O1] = "drained" /\ ReInitCall(O1)

OwnerReInitReset == ReInitReset(O1)

OwnerReInitStore == ReInitStore(O1)

Next ==
    \/ TryAcquireLoadStep
    \/ TryAcquireErrStep
    \/ TryAcquireCasStep
    \/ TryAcquireRetryStep
    \/ ReleaseLoadStep
    \/ ReleaseCasStep
    \/ ReleaseRetryStep
    \/ ReleaseSignalStep
    \/ OwnerWaitLoad
    \/ OwnerWaitEnsureEvent
    \/ OwnerWaitCas
    \/ OwnerWaitRetry
    \/ OwnerWaitCheck
    \/ OwnerWaitWake
    \/ OwnerReInitCall
    \/ OwnerReInitReset
    \/ OwnerReInitStore

Spec == Init /\ [][Next]_vars

\* The steps of thread t that drop its guard and carry the release through.
ReleasePath(t) ==
    ReleaseLoad(t) \/ ReleaseCas(t) \/ ReleaseRetry(t) \/ ReleaseSignal(t)

\* Every guard is eventually dropped and its release runs to the end, and a
\* waiter whose event is set is eventually scheduled.
SpecFair ==
    /\ Spec
    /\ \A t \in Threads : WF_vars(ReleasePath(t))
    /\ WF_vars(WaitWake(O1))

----------------------------------------------------------------------------
\* Two threads call wait_for_rundown on the same object, each once, and
\* nobody calls re_init. The second caller takes the place of one worker
\* thread: the others acquire and drop guards as before.
WaiterWorkers == {t \in Threads : t < NThreads}

WorkerAcquireLoad == \E t \in WaiterWorkers : TryAcquireLoad(t)

WorkerAcquireErr == \E t \in WaiterWorkers : TryAcquireErr(t)

WorkerAcquireCas == \E t \in WaiterWorkers : TryAcquireCas(t)

WorkerAcquireRetry == \E t \in WaiterWorkers : TryAcquireRetry(t)

WorkerReleaseLoad == \E t \in WaiterWorkers : ReleaseLoad(t)

WorkerReleaseCas == \E t \in WaiterWorkers : ReleaseCas(t)

WorkerReleaseRetry == \E t \in WaiterWorkers : ReleaseRetry(t)

WorkerReleaseSignal == \E t \in WaiterWorkers : ReleaseSignal(t)

WaiterCall == \E o \in Owners : o_pc[o] = "idle" /\ WaitLoad(o)

WaiterEnsureEvent == \E o \in Owners : WaitEnsureEvent(o)

WaiterCas == \E o \in Owners : WaitCas(o)

WaiterRetry == \E o \in Owners : WaitRetry(o)

WaiterCheck == \E o \in Owners : WaitCheck(o)

WaiterWake == \E o \in Owners : WaitWake(o)

NextTwoWaiters ==
    \/ WorkerAcquireLoad
    \/ WorkerAcquireErr
    \/ WorkerAcquireCas
    \/ WorkerAcquireRetry
    \/ WorkerReleaseLoad
    \/ WorkerReleaseCas
    \/ WorkerReleaseRetry
    \/ WorkerReleaseSignal
    \/ WaiterCall
    \/ WaiterEnsureEvent
    \/ WaiterCas
    \/ WaiterRetry
    \/ WaiterCheck
    \/ WaiterWake

\* The steps of a wait_for_rundown call of o after its first load.
WaitStep(o) ==
    \/ WaitEnsureEvent(o) \/ WaitCas(o) \/ WaitRetry(o)
    \/ WaitCheck(o) \/ WaitWake(o)

\* A step that drops a guard, carries a release on, or carries a
\* wait_for_rundown call on.
DrainProgress ==
    \/ \E t \in WaiterWorkers : ReleasePath(t)
    \/ \E o \in Owners : WaitStep(o)

\* While a guard can be dropped, a release can go on or a waiter can take
\* a step, one of them eventually does.
SpecTwoWaiters ==
    /\ Init
    /\ [][NextTwoWaiters]_vars
    /\ WF_vars(DrainProgress)

----------------------------------------------------------------------------
\* Misuse: a second thread calls re_init, outside the discipline, at a
\* moment when the object is not fully drained (a guard is outstanding or
\* no run-down has happened).
MisuseReInitCall ==
    /\ o_pc[O2] = "idle"
    /\ ~(ref_count = DrainedWord)
    /\ ReInitCall(O2)

NextMisuse ==
    \/ Next
    \/ MisuseReInitCall

SpecMisuse == Init /\ [][NextMisuse]_vars

----------------------------------------------------------------------------
\* The methods of RundownFlags applied to any word (to_flags(bits)), as the
\* unit tests of the flags do.
refVars == <<ref_count, event, workerVars, ownerVars>>

InitFlags ==
    /\ NewRundownRef
    /\ f_bits \in Words
    /\ f_op = "none"
    /\ f_out = 0

\* flags.add_ref() of src/src/flags.rs
FlagsAddRef ==
    /\ f_op = "none"
    /\ f_op' = "flags_add_ref"
    /\ f_out' = flags_add_ref(f_bits)
    /\ UNCHANGED <<f_bits, refVars>>

\* flags.dec_ref() of src/src/flags.rs
FlagsDecRef ==
    /\ f_op = "none"
    /\ f_op' = "flags_dec_ref"
    /\ f_out' = flags_dec_ref(f_bits)
    /\ UNCHANGED <<f_bits, refVars>>

\* flags.add_ref() of src/src/rundown_ref.rs
RefAddRef ==
    /\ f_op = "none"
    /\ f_op' = "add_ref"
    /\ f_out' \in add_ref(f_bits)
    /\ UNCHANGED <<f_bits, refVars>>

\* flags.dec_ref() of src/src/rundown_ref.rs
RefDecRef ==
    /\ f_op = "none"
    /\ f_op' = "dec_ref"
    /\ f_out' \in dec_ref(f_bits)
    /\ UNCHANGED <<f_bits, refVars>>

\* flags.set_rundown_in_progress()
FlagsSetRundown ==
    /\ f_op = "none"
    /\ f_op' = "set_rundown_in_progress"
    /\ f_out' = set_rundown_in_progress(f_bits)
    /\ UNCHANGED <<f_bits, refVars>>

\* flags = to_flags(<the bits returned>)
FlagsToFlags ==
    /\ f_op # "none"
    /\ f_out # PANIC
    /\ f_bits' = to_flags(f_out)
    /\ f_op' = "none"
    /\ f_out' = 0
    /\ UNCHANGED refVars

NextFlags ==
    \/ FlagsAddRef
    \/ FlagsDecRef
    \/ RefAddRef
    \/ RefDecRef
    \/ FlagsSetRundown
    \/ FlagsToFlags

SpecFlags == InitFlags /\ [][NextFlags]_vars

----------------------------------------------------------------------------
\* Guards issued by a successful try_acquire whose release has not yet
\* decremented the word.
Outstanding == {t \in Threads : pc[t] \in {"holding", "rel"}}

\* wait_for_rundown returns to the owner in this step.
WaitReturns == o_pc[O1] # "drained" /\ o_pc'[O1] = "drained"

\* C1: at the instant wait_for_rundown returns, the word has the run-down
\* flag set and a zero count, and no guard is outstanding; in the first
\* epoch and in the epochs after re_init.
C1_WaitReturnsDrained ==
    [][WaitReturns =>
         /\ is_rundown_in_progress(ref_count')
         /\ get_ref(ref_count') = 0
         /\ \A t \in Threads : pc'[t] \notin {"holding", "rel"}]_vars

\* A wait_for_rundown that had to block has returned, after a re_init.
C1_Witness ==
    /\ o_pc[O1] = "drained"
    /\ o_blocked[O1]
    /\ ~o_recall[O1]
    /\ reinit_done

\* C2: try_acquire returns Ok exactly when its compare_exchange succeeds
\* from a word without the run-down flag; it returns Err only when the word
\* it loaded has the flag, hence after a draining compare_exchange was
\* committed; a failed compare_exchange only makes it retry.
C2_AcquireOutcome ==
    /\ [][\A t \in Threads :
            /\ (pc[t] = "acq" /\ pc'[t] = "holding") <=>
                   (/\ pc[t] = "acq"
                    /\ ref_count = current[t]
                    /\ ~is_rundown_in_progress(ref_count)
                    /\ ref_count' = ref_count + 1
                    /\ current'[t] # current[t] \/ pc'[t] # pc[t])
            /\ (pc[t] = "acq" /\ pc'[t] = "idle") =>
                   (/\ result'[t] = "err"
                    /\ is_rundown_in_progress(current[t])
                    /\ drain_committed)
            /\ (/\ pc[t] = "acq"
                /\ ~is_rundown_in_progress(current[t])
                /\ ref_count # current[t]
                /\ <<pc[t], current[t]>> # <<pc'[t], current'[t]>>) =>
                   (pc'[t] = "acq" /\ current'[t] = ref_count
                    /\ result'[t] = result[t])]_vars
    /\ [](\A t \in Threads :
            (pc[t] = "acq" /\ is_rundown_in_progress(current[t]))
                => drain_committed)

\* One thread holds a guard while another got Err.
C2_Witness ==
    \E t, u \in Threads :
        /\ pc[t] = "holding" /\ result[t] = "ok"
        /\ pc[u] = "idle" /\ result[u] = "err"

\* C3: between the return of wait_for_rundown and the next re_init no
\* try_acquire succeeds, and a try_acquire that starts in that interval
\* returns Err.
C3_NoAcquireAfterRundown ==
    /\ [][RundownComplete =>
            \A t \in Threads :
                /\ pc'[t] = "holding" => pc[t] = "holding"
                /\ (pc[t] = "idle" /\ pc'[t] = "acq") =>
                       is_rundown_in_progress(current'[t])]_vars
    /\ [][\A t \in Threads :
            (pc[t] = "acq" /\ acq_in_interval[t]) =>
                /\ is_rundown_in_progress(current[t])
                /\ current'[t] # current[t] \/ pc'[t] # pc[t] =>
                       (pc'[t] = "idle" /\ result'[t] = "err")]_vars

\* A try_acquire that started after wait_for_rundown returned got Err while
\* the object is still drained.
C3_Witness ==
    /\ o_pc[O1] = "drained"
    /\ \E t \in Threads :
          /\ pc[t] = "idle"
          /\ result[t] = "err"
          /\ acq_in_interval[t]

\* C4: no wake-up is lost: a wait_for_rundown blocked on the event returns
\* once the guards are dropped, and the release whose compare_exchange
\* installs the word with the flag set and a zero count finds the event
\* and sets it.
C4_NoLostWakeup ==
    /\ (o_pc[O1] = "w_wait") ~> (o_pc[O1] = "drained")
    /\ [][\A t \in Threads :
            /\ (pc[t] = "rel" /\ pc'[t] = "rel_done") =>
                   current'[t] = ref_count'
            /\ (/\ pc[t] = "rel_done"
                /\ is_ref_zero(current[t])
                /\ is_rundown_in_progress(current[t])
                /\ pc'[t] # pc[t]) =>
                   (event # "absent" /\ event' = "set" /\ pc'[t] = "idle")]_vars

\* The owner is blocked on an unset event while a guard is outstanding.
C4_Witness ==
    /\ o_pc[O1] = "w_wait"
    /\ event = "unset"
    /\ Outstanding # {}

\* The owner is inside a wait_for_rundown call.
InWait(o) == o_pc[o] \in {"w_loop", "w_cas", "w_after", "w_wait"}

\* C5: wait_for_rundown called again on a drained object, with no re_init
\* in between, does not block and leaves the word unchanged.
C5_WaitIdempotent ==
    /\ [][(o_recall[O1] /\ InWait(O1)) =>
            (ref_count' = ref_count /\ o_pc'[O1] # "w_wait")]_vars
    /\ [][(o_pc[O1] = "drained" /\ o_pc'[O1] = "w_loop") =>
            (is_rundown_in_progress(ref_count) /\ get_ref(ref_count) = 0)]_vars
    /\ []((o_recall[O1] /\ InWait(O1)) =>
            (/\ o_pc[O1] # "w_wait"
             /\ o_cur[O1] = ref_count
             /\ is_rundown_in_progress(ref_count)
             /\ get_ref(ref_count) = 0))

\* A repeated wait_for_rundown has returned in an epoch whose first drain
\* had to block (the event is still set).
C5_Witness ==
    /\ o_pc[O1] = "drained"
    /\ o_recall[O1]
    /\ o_blocked[O1]
    /\ event = "set"

\* C6: after its successful draining compare_exchange wait_for_rundown
\* waits on the event exactly when the count of that word is nonzero; with
\* a zero count it returns at once and leaves the event alone, and an
\* iteration that sees a zero count constructs no event.
C6_BlocksIffNonzero ==
    [][/\ (o_pc[O1] = "w_after" /\ o_pc'[O1] # "w_after") =>
            /\ o_pc'[O1] = "w_wait" <=> ~is_ref_zero(o_cur[O1])
            /\ o_pc'[O1] = "drained" <=> is_ref_zero(o_cur[O1])
            /\ is_ref_zero(o_cur[O1]) => event' = event
       /\ (o_pc[O1] = "w_cas" /\ o_pc'[O1] = "w_after") =>
            (o_cur'[O1] = ref_count' /\ get_ref(ref_count') = get_ref(ref_count))
       /\ (o_pc[O1] = "w_loop" /\ o_pc'[O1] = "w_cas"
              /\ is_ref_zero(o_cur[O1])) => event' = event
       /\ (event = "absent" /\ event' # "absent") =>
            (o_pc[O1] = "w_loop" /\ ~is_ref_zero(o_cur[O1]))]_vars

\* In the first epoch a guard was issued and dropped, the drain then
\* returned without waiting and no event exists.
C6_Witness ==
    /\ o_pc[O1] = "drained"
    /\ ~o_blocked[O1]
    /\ ~o_recall[O1]
    /\ ~reinit_done
    /\ event = "absent"
    /\ \A t \in Threads : pc[t] = "idle"
    /\ \E t \in Threads : result[t] = "dropped"

\* A call of re_init starts and is validated in this step.
ReInitCalled(o) ==
    /\ o_pc[o] \in {"idle", "drained"}
    /\ o_pc'[o] \in {"ri_reset", "panic"}

\* C7: re_init on an object that is not fully drained panics, and changes
\* neither the word nor the event.
C7_ReInitFault ==
    [][\A o \in Owners :
         /\ ReInitCalled(o) =>
              /\ ~(is_rundown_in_progress(ref_count) /\ get_ref(ref_count) = 0)
                    <=> o_pc'[o] = "panic"
              /\ o_pc'[o] = "panic" => (ref_count' = ref_count /\ event' = event)
         /\ o_pc[o] = "panic" => o_pc'[o] = "panic"]_vars

\* re_init faulted on a word with the run-down flag and a nonzero count.
C7_Witness ==
    /\ o_pc[O2] = "panic"
    /\ is_rundown_in_progress(o_cur[O2])
    /\ ~is_ref_zero(o_cur[O2])

\* C8: re_init on a drained object resets the event when it exists, then
\* stores the word with a zero count and a clear flag; a later
\* wait_for_rundown is not woken by an event left set by the epoch before.
C8_ReInitEpoch ==
    /\ [][/\ (o_pc[O1] = "ri_reset" /\ o_pc'[O1] # "ri_reset") =>
               /\ o_pc'[O1] = "ri_store"
               /\ event' = IF event = "absent" THEN "absent" ELSE "unset"
               /\ ref_count' = ref_count
               /\ is_rundown_in_progress(ref_count) /\ get_ref(ref_count) = 0
          /\ (o_pc[O1] = "ri_store" /\ o_pc'[O1] # "ri_store") =>
               /\ o_pc'[O1] = "idle"
               /\ ~is_rundown_in_progress(ref_count')
               /\ get_ref(ref_count') = 0
               /\ event' = event
               /\ event # "set"]_vars
    /\ []((InWait(O1) /\ event = "set") =>
            (/\ is_rundown_in_progress(ref_count)
             /\ get_ref(ref_count) = 0
             /\ Outstanding = {}))
    /\ []((~InWait(O1) /\ ~RundownComplete) => event # "set")

\* After a re_init that followed a blocking drain, a guard was acquired and
\* the owner is blocked again on the reset event.
C8_Witness ==
    /\ reinit_done
    /\ o_pc[O1] = "w_wait"
    /\ event = "unset"
    /\ \E t \in Threads : pc[t] = "holding" /\ result[t] = "ok"

\* C9: the count field of the word is the number of guards issued and not
\* yet released.
C9_CountIsOutstanding == get_ref(ref_count) = Cardinality(Outstanding)

\* Every thread holds a guard and none was released.
C9_Witness ==
    /\ \A t \in Threads : pc[t] = "holding"
    /\ ~is_rundown_in_progress(ref_count)

\* C10: dropping a guard releases once: the successful compare_exchange of
\* the release lowers the count by one and keeps the flag bits, and every
\* decrease of the count is the release of exactly one dropped guard.
C10_ReleaseOnce ==
    [][/\ \A t \in Threads :
            /\ (pc[t] = "rel" /\ pc'[t] # "rel") =>
                 /\ pc'[t] = "rel_done"
                 /\ get_ref(ref_count') = get_ref(ref_count) - 1
                 /\ BitAnd(ref_count', RUNDOWN_IN_PROGRESS)
                       = BitAnd(ref_count, RUNDOWN_IN_PROGRESS)
            /\ (pc[t] = "holding" /\ pc'[t] # "holding") =>
                 (pc'[t] = "rel" /\ ref_count' = ref_count)
            /\ (pc[t] = "rel_done" /\ pc'[t] # "rel_done") =>
                 (pc'[t] = "idle" /\ ref_count' = ref_count)
       /\ get_ref(ref_count') < get_ref(ref_count) =>
            Cardinality({t \in Threads :
                           pc[t] = "rel" /\ pc'[t] = "rel_done"}) = 1]_vars

\* A release has decremented a word that carries the run-down flag while
\* another guard is still outstanding.
C10_Witness ==
    \E t \in Threads :
        /\ pc[t] = "rel_done"
        /\ is_rundown_in_progress(current[t])
        /\ ~is_ref_zero(current[t])
        /\ ref_count = current[t]

\* Any step of worker thread t.
WorkerStep(t) ==
    \/ TryAcquireLoad(t) \/ TryAcquireErr(t) \/ TryAcquireCas(t)
    \/ TryAcquireRetry(t)
    \/ ReleaseLoad(t) \/ ReleaseCas(t) \/ ReleaseRetry(t) \/ ReleaseSignal(t)

\* Thread t takes a step.
WorkerMoves(t) ==
    <<pc[t], current[t], result[t]>> # <<pc'[t], current'[t], result'[t]>>

\* C11: try_acquire and release never block: a thread inside either always
\* has a step to take, whatever the event is; a retry happens only when the
\* word differs from the one the thread loaded and reloads it, so a call
\* whose word is unchanged finishes with its next step; a try_acquire that
\* has observed the run-down flag returns Err with its next step.
C11_NeverBlock ==
    /\ [](\A t \in Threads : pc[t] # "panic" => ENABLED WorkerStep(t))
    /\ [][\A t \in Threads :
            /\ (/\ pc[t] \in {"acq", "rel"}
                /\ pc'[t] = pc[t]
                /\ WorkerMoves(t)) =>
                   /\ ref_count # current[t]
                   /\ current'[t] = ref_count
                   /\ ref_count' = ref_count
                   /\ event' = event
            /\ (/\ pc[t] \in {"acq", "rel"}
                /\ current[t] = ref_count
                /\ WorkerMoves(t)) => pc'[t] # pc[t]
            /\ (/\ pc[t] = "acq"
                /\ is_rundown_in_progress(current[t])
                /\ WorkerMoves(t)) =>
                   (pc'[t] = "idle" /\ result'[t] = "err")]_vars

\* A release is about to retry, and a try_acquire has seen the flag, while
\* the owner is blocked on the unset event.
C11_Witness ==
    /\ o_pc[O1] = "w_wait"
    /\ event = "unset"
    /\ \E t, u \in Threads :
          /\ pc[t] = "rel" /\ current[t] # ref_count
          /\ pc[u] = "acq" /\ is_rundown_in_progress(current[u])

\* C12: incrementing a word whose count is already MaxCount faults, in both
\* add_ref implementations, and never carries into the flag bits.
C12_AddRefOverflowFaults ==
    (/\ f_op \in {"flags_add_ref", "add_ref"}
     /\ get_ref(f_bits) = MaxCount) => f_out = PANIC

\* C13: decrementing a word whose count is 0 faults, in both dec_ref
\* implementations and for both values of the flag, and never borrows from
\* the flag bits.
C13_DecRefUnderflowFaults ==
    (/\ f_op \in {"flags_dec_ref", "dec_ref"}
     /\ get_ref(f_bits) = 0) => f_out = PANIC

\* C14: whenever the word is draining with a nonzero count the event
\* exists; so the event lookup of a release whose decrement reached
\* {0, true} and the lookup of wait_for_rundown before waiting both succeed.
C14_EventExists ==
    /\ (is_rundown_in_progress(ref_count) /\ ~is_ref_zero(ref_count))
          => event # "absent"
    /\ \A t \in Threads :
          (/\ pc[t] = "rel_done"
           /\ is_ref_zero(current[t])
           /\ is_rundown_in_progress(current[t])) => event # "absent"
    /\ \A o \in Owners :
          (o_pc[o] = "w_after" /\ ~is_ref_zero(o_cur[o])) => event # "absent"

\* The count changed between wait_for_rundown's load, which saw zero and
\* created no event, and its compare_exchange, which is about to fail.
C14_Witness ==
    /\ o_pc[O1] = "w_cas"
    /\ is_ref_zero(o_cur[O1])
    /\ ~is_ref_zero(ref_count)
    /\ event = "absent"

\* C15: once the word has the run-down flag, no step of try_acquire,
\* release or wait_for_rundown installs a word without it; the only step
\* that clears the flag is the store of re_init, which installs 0.
C15_FlagMonotonic ==
    [][(is_rundown_in_progress(ref_count)
          /\ ~is_rundown_in_progress(ref_count')) =>
       (/\ \E o \in Owners : o_pc[o] = "ri_store" /\ o_pc'[o] = "idle"
        /\ ref_count' = 0
        /\ pc' = pc)]_vars

\* The flag has survived an acquire attempt, a release and a repeated
\* wait_for_rundown, all on the flagged word.
C15_Witness ==
    /\ is_rundown_in_progress(ref_count)
    /\ o_recall[O1] /\ o_pc[O1] = "w_after"
    /\ \E t, u \in Threads :
          /\ result[t] = "err"
          /\ result[u] = "dropped"

\* C16: with the workers acquiring and dropping guards and one owner
\* alternating wait_for_rundown and re_init, the word is exactly
\* {0, true} from the return of wait_for_rundown until the store of the
\* following re_init; the validation of re_init passes, and no thread or
\* owner ever faults.
C16_StressNoFault ==
    /\ (o_pc[O1] \in {"drained", "ri_reset", "ri_store"})
          => ref_count = DrainedWord
    /\ (o_pc[O1] \in {"ri_reset", "ri_store"})
          => re_init_valid(o_cur[O1])
    /\ \A t \in Threads : pc[t] # "panic"
    /\ \A o \in Owners : o_pc[o] # "panic"

\* In a second or later epoch the owner, after blocking in
\* wait_for_rundown, has passed the validation of re_init.
C16_Witness ==
    /\ reinit_done
    /\ o_blocked[O1]
    /\ o_pc[O1] = "ri_reset"
    /\ \E t \in Threads : pc[t] = "acq"

\* C17: a new object has no event; the event is created only by the
\* get_or_create of a wait_for_rundown iteration whose word has a nonzero
\* count, unset, and by no step of try_acquire, release or re_init; once
\* created it exists for the rest of the object's life.
C17_LazyEventOnce ==
    /\ event = "absent"
    /\ [][(event = "absent" /\ event' # "absent") =>
          (/\ event' = "unset"
           /\ pc' = pc
           /\ \E o \in Owners : /\ o_pc[o] = "w_loop"
                                /\ o_pc'[o] = "w_cas"
                                /\ ~is_ref_zero(o_cur[o]))]_vars
    /\ [][event # "absent" => event' # "absent"]_vars

\* In a later epoch a wait_for_rundown iteration with a nonzero count has
\* passed get_or_create and kept the event made in an earlier epoch.
C17_Witness ==
    /\ reinit_done
    /\ ~o_recall[O1]
    /\ o_pc[O1] = "w_cas"
    /\ ~is_ref_zero(o_cur[O1])
    /\ o_cur[O1] = ref_count
    /\ event = "unset"

\* C18: the event is set only by the last step of a release whose own
\* successful compare_exchange produced the word {0, true}; so whenever
\* the event is set the word is {0, true}.
C18_SetOnlyByLastRelease ==
    /\ [](event = "set" => ref_count = DrainedWord)
    /\ [][(event # "set" /\ event' = "set") =>
          (/\ o_pc' = o_pc
           /\ \E t \in Threads : /\ pc[t] = "rel_done"
                                 /\ pc'[t] = "idle"
                                 /\ current[t] = DrainedWord)]_vars
    /\ [][\A t \in Threads :
            (pc[t] = "rel" /\ pc'[t] = "rel_done" /\ current'[t] = DrainedWord)
               => (ref_count' = DrainedWord /\ ref_count = DrainedWord + 1)]_vars

\* The last release has set the event while the owner is still blocked and
\* another thread's release of an earlier guard has completed.
C18_Witness ==
    /\ event = "set"
    /\ o_pc[O1] = "w_wait"
    /\ \A t \in Threads : result[t] = "dropped"

\* C19: a try_acquire that returns Err has changed neither the word nor
\* the event: the only step of try_acquire that changes the word is the
\* successful compare_exchange, after which the call returns the guard.
C19_FailedAcquireNoTrace ==
    [][\A t \in Threads :
          (/\ pc[t] \in {"idle", "acq"}
           /\ WorkerMoves(t)
           /\ pc'[t] # "holding") =>
             (/\ ref_count' = ref_count
              /\ event' = event
              /\ (result'[t] = "err" =>
                    (/\ pc[t] = "acq" /\ pc'[t] = "idle"
                     /\ is_rundown_in_progress(current[t]))))]_vars

\* A try_acquire has returned Err while another thread still holds its
\* guard and the owner is blocked: the count is that one guard.
C19_Witness ==
    /\ o_pc[O1] = "w_wait"
    /\ event = "unset"
    /\ ref_count = DrainedWord + 1
    /\ \E t, u \in Threads :
          /\ pc[t] = "idle" /\ result[t] = "err"
          /\ pc[u] = "holding"

\* C20: the successful compare_exchange of wait_for_rundown replaces the
\* word it loaded by a word with the flag set and the same count, and
\* changes nothing else; the count still equals the outstanding guards.
C20_DrainKeepsCount ==
    [][\A o \in Owners :
          (o_pc[o] = "w_cas" /\ o_pc'[o] = "w_after") =>
             (/\ ref_count = o_cur[o]
              /\ is_rundown_in_progress(ref_count')
              /\ get_ref(ref_count') = get_ref(ref_count)
              /\ get_ref(ref_count') = Cardinality(Outstanding)
              /\ pc' = pc
              /\ event' = event)]_vars

\* The flag has just been installed on a word that counts a guard for
\* every thread.
C20_Witness ==
    /\ o_pc[O1] = "w_after"
    /\ ~o_recall[O1]
    /\ o_cur[O1] = DrainedWord + NThreads
    /\ ref_count = o_cur[O1]

\* A release of thread t has installed {0, true} and has not yet called
\* set() on the event.
SetPending(t) ==
    /\ pc[t] = "rel_done"
    /\ is_ref_zero(current[t])
    /\ is_rundown_in_progress(current[t])

\* C21: while the owner is between the return of wait_for_rundown and the
\* store of re_init, no release is between its zeroing compare_exchange and
\* its set(); so after the reset of re_init the event is not set, and it
\* stays so while the word has no flag: the next set() is the one of the
\* final release of the next run-down.
C21_NoLateSet ==
    /\ [](\A t \in Threads :
            (o_pc[O1] \in {"drained", "ri_reset", "ri_store"})
               => ~SetPending(t))
    /\ [](o_pc[O1] = "ri_store" => event # "set")
    /\ []((reinit_done /\ ~is_rundown_in_progress(ref_count))
             => (event # "set" /\ \A t \in Threads : ~SetPending(t)))
    /\ [][(reinit_done /\ event # "set" /\ event' = "set") =>
            (/\ drain_committed
             /\ o_pc[O1] \in {"w_after", "w_wait"}
             /\ ~is_ref_zero(o_cur[O1])
             /\ ref_count = DrainedWord
             /\ \E t \in Threads : SetPending(t) /\ pc'[t] = "idle")]_vars

\* After a re_init, the owner is blocked on the unset event of the next
\* run-down and the final release is about to call set().
C21_Witness ==
    /\ reinit_done
    /\ event = "unset"
    /\ o_pc[O1] = "w_wait"
    /\ \E t \in Threads : SetPending(t)

\* re_init of owner o is between its load and its store.
InReInit(o) == o_pc[o] \in {"ri_reset", "ri_store"}

\* C22: between the load and the store of re_init the word is the drained
\* word that re_init loaded: no guard is outstanding, no step of another
\* thread changes the word (a try_acquire in progress does not reach its
\* guard), and the only change is the store itself, which installs 0 over
\* the word that was loaded.
C22_ReInitStoreNoOverwrite ==
    /\ [](InReInit(O1) =>
            (/\ ref_count = o_cur[O1]
             /\ ref_count = DrainedWord
             /\ Outstanding = {}))
    /\ [][InReInit(O1) =>
            (/\ ref_count' # ref_count =>
                  (/\ o_pc[O1] = "ri_store" /\ o_pc'[O1] = "idle"
                   /\ ref_count' = 0
                   /\ pc' = pc)
             /\ \A t \in Threads : pc'[t] \notin {"holding", "rel", "panic"}
             /\ o_pc'[O1] # "panic")]_vars

\* re_init is about to store while one try_acquire holds a word loaded
\* before the run-down and another one has loaded the drained word.
C22_Witness ==
    /\ o_pc[O1] = "ri_store"
    /\ \E t, u \in Threads :
          /\ pc[t] = "acq" /\ ~is_rundown_in_progress(current[t])
          /\ pc[u] = "acq" /\ is_rundown_in_progress(current[u])

\* C23: with two concurrent wait_for_rundown calls and no re_init, a call
\* returns only when the word is {0, true} and no guard is outstanding; the
\* compare_exchange of a caller that loaded a word with the flag installs
\* the same word; and once the flag is set, the guards are dropped and a
\* moment comes when every call that was in progress has returned.
C23_TwoWaiters ==
    /\ [][\A o \in Owners :
            /\ (o_pc[o] # "drained" /\ o_pc'[o] = "drained") =>
                  (/\ ref_count = DrainedWord
                   /\ ref_count' = DrainedWord
                   /\ Outstanding = {})
            /\ (/\ o_pc[o] = "w_cas" /\ o_pc'[o] = "w_after"
                /\ is_rundown_in_progress(o_cur[o])) =>
                  ref_count' = ref_count]_vars
    /\ is_rundown_in_progress(ref_count)
          ~> (\A o \in Owners : ~InWait(o))

\* Both callers are blocked on the same unset event while a guard is
\* outstanding.
C23_Witness ==
    /\ o_pc[O1] = "w_wait"
    /\ o_pc[O2] = "w_wait"
    /\ event = "unset"
    /\ ref_count = DrainedWord + 1

\* The bits of the mask are all clear or all set in the word.
FlagBitsUniform(bits) ==
    BitAnd(bits, RUNDOWN_IN_PROGRESS) \in {0, RUNDOWN_IN_PROGRESS}

\* C24: in every reachable state the flag bits of the word, and of every
\* copy of it a thread has loaded, are all clear or all set: a word whose
\* flag is reported clear is its count alone.
C24_FlagBitsAllOrNone ==
    /\ FlagBitsUniform(ref_count)
    /\ ~is_rundown_in_progress(ref_count) => ref_count = get_ref(ref_count)
    /\ \A t \in Threads : FlagBitsUniform(current[t])
    /\ \A o \in Owners : FlagBitsUniform(o_cur[o])

\* In a second epoch the flag is set on a word that counts a guard for
\* every thread.
C24_Witness ==
    /\ reinit_done
    /\ ref_count = DrainedWord + NThreads
    /\ \A t \in Threads : pc[t] = "holding"

\* The pair (active_count, draining) read from a raw word through to_flags.
decode(bits) ==
    <<get_ref(to_flags(bits)), is_rundown_in_progress(to_flags(bits))>>

\* The word built from a pair: the count, with the mask or-ed in when
\* draining.
encode(s) == IF s[2] THEN set_rundown_in_progress(s[1]) ELSE s[1]

\* The pairs (active_count, draining) the word can hold.
ValidPairs == (0 .. MaxCount) \X BOOLEAN

\* The increment of a flagged word with a count below the maximum yields
\* count + 1 with the flag still set.
IncrementKeepsFlag ==
    (/\ f_op \in {"flags_add_ref", "add_ref"}
     /\ is_rundown_in_progress(to_flags(f_bits))
     /\ get_ref(to_flags(f_bits)) < MaxCount) =>
       (/\ f_out # PANIC
        /\ decode(f_out) = <<get_ref(to_flags(f_bits)) + 1, TRUE>>)

\* C25 as stated: every raw word is the encoding of the pair decoded from
\* it, every valid pair is decoded from its encoding, and an increment of a
\* flagged word keeps the flag.
C25_RoundTripEveryWord ==
    /\ encode(decode(f_bits)) = f_bits
    /\ \A s \in ValidPairs : decode(encode(s)) = s
    /\ IncrementKeepsFlag

\* C25, amended: a raw word whose flag bits are all clear or all set is the
\* encoding of the pair decoded from it (a word with only some of the flag
\* bits set decodes to draining = false and is not); every valid pair is
\* decoded from its encoding; an increment of a flagged word with a count
\* below the maximum yields count + 1 with the flag still set.
C25_RoundTripValidWords ==
    /\ FlagBitsUniform(f_bits) => encode(decode(f_bits)) = f_bits
    /\ ~FlagBitsUniform(f_bits) =>
          (decode(f_bits)[2] = FALSE /\ encode(decode(f_bits)) # f_bits)
    /\ \A s \in ValidPairs : decode(encode(s)) = s
    /\ IncrementKeepsFlag

\* The word of test_to_flags, flag set and count 1, has been decoded and
\* incremented.
C25_Witness ==
    /\ f_bits = DrainedWord + 1
    /\ decode(f_bits) = <<1, TRUE>>
    /\ f_op = "flags_add_ref"
    /\ f_out = DrainedWord + 2

====
